---- MODULE Spec2Model ----
(***************************************************************************)
(* Request lifecycle of the screenshot service (express + puppeteer).      *)
(*                                                                         *)
(* The repository holds four revisions of the server:                      *)
(*   "cdn"        src/server.js 1-536      shared browser, Readability     *)
(*                from a CDN, one evaluate doing suppression + location +  *)
(*                rendering (body children removed)                        *)
(*   "inplace"    src/server.js 538-904    shared browser, in-place        *)
(*                rendering                                                *)
(*   "replace"    src/unnamed/part_000 1-371    shared browser, body       *)
(*                replaced by the parsed article                           *)
(*   "perRequest" src/unnamed/part_000 373-599  a browser launched and     *)
(*                closed inside every request handler                      *)
(* The revision in force is fixed at start-up (variable variant).          *)
(*                                                                         *)
(* Spec and SpecSingle are the server: start-up, request handlers, signal  *)
(* handling.  SpecImages, SpecResolve, SpecLocate, SpecSuppress,           *)
(* SpecRender and SpecScroll are the functions the handlers evaluate       *)
(* inside the page (image selection and capture, lazy-source rewriting,    *)
(* article location, noise suppression, reader view, lazy-load scroll),    *)
(* applied to documents drawn from bounded sets; SpecRoutes asks both      *)
(* routes about one page.  SpecScrollFair is SpecScroll with the interval  *)
(* timer firing until it is cleared, SpecSingleFair is SpecSingle with     *)
(* every awaited operation settling.                                       *)
(***************************************************************************)
EXTENDS Naturals, Integers, Sequences, FiniteSets, TLC

\* ------------------------------------------------------------------ bounds
NumRequests == 2
MaxSignals == 2
MaxImages == 2

Requests == 1..NumRequests
Variants == {"cdn", "inplace", "replace", "perRequest"}
Ops == {"screenshot", "images"}
\* req.query.url: absent, present but empty, or a non-empty string
Urls == {"missing", "empty", "valid"}

VARIABLES
  variant,    \* which revision of the server is deployed
  proc,       \* process: "launching" | "launched" | "listening", or ended:
              \* "exit0" | "exit1" (process.exit code) | "killed" (by a signal)
  browser,    \* the module-level handle: "null" | "open" | "closing"
  closeCalls, \* browser.close() calls made by shutdown(), one per signal
  pc,         \* per request: the statement its handler is at
  op,         \* per request: the route
  url,        \* per request: req.query.url
  page,       \* per request: the handler's `page` variable (0 = undefined)
  own,        \* per request: the handler's local `browser` ("none"|"open"|"closed")
  located,    \* per request: result of the in-page evaluate
  nSel,       \* per request: number of image descriptors the evaluate returned
  idx,        \* per request: loop variable i of the capture loop
  captured,   \* per request: imageBuffers, as the selected indices captured
  failed,     \* per request: first statement that threw ("none" if none)
  steps,      \* per request: pipeline stages completed, in order
  resp,       \* per request: payloads handed to res and sent, in order
  pages,      \* per page id: "none" | "open" | "closed"
  users,      \* per page id: requests that issued an operation on it
  pageCloses, \* per page id: close() calls issued on it
  logged,     \* per request: loop indices the capture loop's catch logged
  fn,         \* the in-page function under evaluation ("none" in the server)
  dom,        \* the document (or element) that function is given
  ret         \* what that function returned

vars == <<variant, proc, browser, closeCalls, pc, op, url, page, own,
          located, nSel, idx, captured, failed, steps, resp, pages, users,
          pageCloses, logged, fn, dom, ret>>

reqVars == <<pc, op, url, page, own, located, nSel, idx, captured, failed,
             steps, resp, pages, users, pageCloses>>

\* the in-page function's argument and result, which no handler step touches
fnVars == <<fn, dom, ret>>

\* ------------------------------------------------------------ start-up
SharedBrowser(v) == v # "perRequest"

\* the module-level state and every handler's locals before the first request
Boot ==
  /\ proc = "launching"
  /\ browser = "null"
  /\ closeCalls = 0
  /\ pc = [r \in Requests |-> "idle"]
  /\ op = [r \in Requests |-> "screenshot"]
  /\ url = [r \in Requests |-> "missing"]
  /\ page = [r \in Requests |-> 0]
  /\ own = [r \in Requests |-> "none"]
  /\ located = [r \in Requests |-> "none"]
  /\ nSel = [r \in Requests |-> 0]
  /\ idx = [r \in Requests |-> 0]
  /\ captured = [r \in Requests |-> <<>>]
  /\ failed = [r \in Requests |-> "none"]
  /\ steps = [r \in Requests |-> <<>>]
  /\ resp = [r \in Requests |-> <<>>]
  /\ pages = [p \in Requests |-> "none"]
  /\ users = [p \in Requests |-> {}]
  /\ pageCloses = [p \in Requests |-> 0]
  /\ logged = [r \in Requests |-> {}]

Init ==
  /\ variant \in Variants
  /\ Boot
  /\ fn = "none"
  /\ dom = <<>>
  /\ ret = <<>>

Exited == proc \in {"exit0", "exit1", "killed"}

\* a start-up that logs the launch failure and carries on
AfterLaunchFailureSwallowed == "launched"

\* catch block of initBrowser: process.exit(1)
AfterLaunchFailure == "exit1"

\* initBrowser(): puppeteer.launch resolves or rejects.  The per-request
\* revision has no initBrowser: the module body goes straight to app.listen.
initBrowser ==
  /\ proc = "launching"
  /\ IF SharedBrowser(variant)
     THEN \E outcome \in {"ok", "throw"} :
            IF outcome = "ok"
            THEN proc' = "launched" /\ browser' = "open"
            ELSE proc' = AfterLaunchFailure /\ browser' = browser
     ELSE proc' = "launched" /\ browser' = browser
  /\ UNCHANGED <<variant, closeCalls>>
  /\ UNCHANGED reqVars
  /\ UNCHANGED <<logged, fnVars>>

\* initBrowser().then(() => app.listen(...)) ; app.listen(...) at module level
Listen ==
  /\ proc = "launched"
  /\ proc' = "listening"
  /\ UNCHANGED <<variant, browser, closeCalls>>
  /\ UNCHANGED reqVars
  /\ UNCHANGED <<logged, fnVars>>

\* ------------------------------------------------------ handler control flow
\* The awaited statements of each handler, in program order.  "evaluate" is
\* the in-page function that locates the article (and, in the cdn revision,
\* first suppresses noise); "close" is page.close(), or browser.close() in the
\* per-request revision.
Program(v, o) ==
  CASE v = "cdn" /\ o = "screenshot" ->
         <<"newPage", "configure", "goto", "lazyLoad", "inject", "evaluate",
           "capture", "close", "send">>
    [] v = "cdn" /\ o = "images" ->
         <<"newPage", "configure", "goto", "lazyLoad", "inject", "evaluate",
           "captureLoop", "close", "send">>
    [] v = "inplace" /\ o = "screenshot" ->
         <<"newPage", "configure", "goto", "lazyLoad", "suppress", "inject",
           "evaluate", "capture", "close", "send">>
    [] v = "inplace" /\ o = "images" ->
         <<"newPage", "configure", "goto", "lazyLoad", "suppress", "inject",
           "evaluate", "captureLoop", "close", "send">>
    [] v = "replace" /\ o = "screenshot" ->
         <<"newPage", "configure", "goto", "lazyLoad", "suppress", "inject",
           "evaluate", "awaitImages", "capture", "close", "send">>
    [] v = "replace" /\ o = "images" ->
         <<"newPage", "configure", "goto", "lazyLoad", "suppress", "inject",
           "evaluate", "captureLoop", "close", "send">>
    [] v = "perRequest" /\ o = "screenshot" ->
         <<"launch", "newPage", "configure", "goto", "lazyLoad", "capture",
           "queryImages", "close", "send">>
    [] v = "perRequest" /\ o = "images" ->
         <<"launch", "newPage", "configure", "goto", "lazyLoad",
           "queryImages", "captureLoop", "close", "send">>

RECURSIVE IndexOf(_, _, _)
IndexOf(seq, x, i) ==
  IF i > Len(seq) THEN 0
  ELSE IF seq[i] = x THEN i ELSE IndexOf(seq, x, i + 1)

\* the element after s in prog; "done" after the last
Successor(prog, s) ==
  LET i == IndexOf(prog, s, 1)
  IN IF i = 0 \/ i = Len(prog) THEN "done" ELSE prog[i + 1]

\* prog with the statements a and b exchanged
Exchange(prog, a, b) ==
  [i \in 1..Len(prog) |->
     IF prog[i] = a THEN b ELSE IF prog[i] = b THEN a ELSE prog[i]]

\* a handler that sends the response first and closes the page afterwards
NextPcSendFirst(v, o, s) == Successor(Exchange(Program(v, o), "close", "send"), s)

\* a handler that navigates first and configures the page afterwards
NextPcGotoFirst(v, o, s) ==
  Successor(Exchange(Program(v, o), "configure", "goto"), s)

\* the statement after s when s completes normally; after the last, the
\* handler returns
NextPc(v, o, s) == Successor(Program(v, o), s)

\* a check that only catches the absent parameter (url === undefined)
UrlMissingStrict(u) == u = "missing"

\* `if (!url)`: undefined and the empty string are both falsy
UrlMissing(u) == u \in {"missing", "empty"}

\* a handler whose page.goto sits in its own try/catch that swallows the error
OnThrowSwallowGoto(v, o, s) ==
  IF s = "goto" THEN Successor(Program(v, o), s) ELSE "catch"

\* every awaited statement after `try {` transfers to the catch block when it
\* rejects
\* a handler whose newPage call sits outside the try block
OnThrowEscapesNewPage(v, o, s) == IF s = "newPage" THEN "done" ELSE "catch"

OnThrow(v, o, s) == "catch"

\* `let page;` hoisted to module level: one variable for all invocations
BindPageShared(r, id) == [q \in Requests |-> id]

\* `let page;` is local to one invocation of the handler: the assignment
\* `page = await browser.newPage()` binds that invocation's variable only
BindPage(r, id) == [page EXCEPT ![r] = id]

\* a catch block that answers without closing the page
CatchNeverCloses(r) == FALSE

\* `if (page)` / `if (browser)` in the catch block
CatchCloses(r) ==
  IF SharedBrowser(variant) THEN page[r] # 0 ELSE own[r] # "none"

\* ------------------------------------------------------------ payloads
Payload(status, kind, total, message) ==
  [status |-> status, kind |-> kind, total |-> total, message |-> message,
   images |-> <<>>, header |-> ""]

\* res.status(400).json({ error: 'URL parameter is required' })
ParameterRequired == Payload(400, "error", 0, FALSE)
\* res.status(404).json({ error: 'No images found ...' })
NotFoundResult == Payload(404, "error", 0, FALSE)
\* res.status(500).json({ error: 'Failed to ...', message: error.message })
FailureResult == Payload(500, "error", 0, TRUE)
\* res.status(500).json({ error: 'Failed to parse article with Readability' })
ParseFailureResult == Payload(500, "error", 0, FALSE)
\* res.send(screenshot) with Content-Type image/png
PngResult == Payload(200, "png", 0, FALSE)
\* an entry list that keeps each descriptor's own index
ImageEntriesBySelection(capt) ==
  [i \in 1..Len(capt) |->
     [index |-> capt[i], filename |-> <<"image-", capt[i], ".png">>,
      info |-> capt[i]]]

\* imageBuffers.map((item, index) => ({ index, filename: `image-${index}.png`,
\* ..., src: item.info.src, ... })): capt[i] names the descriptor (or, in the
\* per-request revision, the element) the i-th buffer was taken from
ImageEntries(capt) ==
  [i \in 1..Len(capt) |->
     [index |-> i - 1, filename |-> <<"image-", i - 1, ".png">>,
      info |-> capt[i]]]

\* res.setHeader('X-Total-Images', imageBuffers.length.toString());
\* res.json({ totalImages: imageBuffers.length, images: imagesBase64 })
ImagesResult(capt) ==
  [Payload(200, "images", Len(capt), FALSE) EXCEPT
     !.images = ImageEntries(capt),
     !.header = ToString(Len(capt))]

\* what the evaluate reports to the handler: the article is reported found
\* only when Readability is defined, parse() is non-null and (cdn, inplace)
\* the density scan returned an element.  The cdn revision wraps the page
\* function in try/catch and reports failure when anything inside throws.
Locate(v, lib, parsed, cand, exc) ==
  CASE v = "cdn" ->
         IF lib /\ parsed /\ cand /\ ~exc THEN "Found" ELSE "NotFound"
    [] v = "inplace" ->
         IF lib /\ parsed /\ cand THEN "Found" ELSE "NotFound"
    [] OTHER ->
         IF lib /\ parsed THEN "Found" ELSE "NotFound"

\* the branch the handler takes on the evaluate's result
AfterEvaluate(v, o, loc, n) ==
  IF o = "screenshot"
  THEN IF v = "replace" /\ loc = "NotFound"
       THEN "close"
       ELSE NextPc(v, o, "evaluate")
  ELSE IF loc = "NotFound" \/ n = 0
       THEN "close"
       ELSE NextPc(v, o, "evaluate")

\* a handler that reports an empty selection as a failure
ResponseForEmptyFails(v, o, loc, n, got) ==
  IF o = "screenshot"
  THEN IF v = "replace" /\ loc = "NotFound" THEN ParseFailureResult ELSE PngResult
  ELSE IF loc = "NotFound" \/ n = 0 \/ Len(got) = 0
       THEN FailureResult
       ELSE ImagesResult(got)

\* the payload the try block sends once the page is closed
ResponseFor(v, o, loc, n, got) ==
  IF o = "screenshot"
  THEN IF v = "replace" /\ loc = "NotFound"
       THEN ParseFailureResult
       ELSE PngResult
  ELSE IF SharedBrowser(v) /\ (loc = "NotFound" \/ n = 0)
       THEN NotFoundResult
       ELSE IF v \in {"cdn", "perRequest"} /\ Len(got) = 0
            THEN NotFoundResult
            ELSE ImagesResult(got)

\* ------------------------------------------------------------ handler steps
Running(r) == ~Exited /\ pc[r] \notin {"idle", "done"}

\* the statement at pc[r] rejected
Throw(r, s) ==
  /\ pc' = [pc EXCEPT ![r] = OnThrow(variant, op[r], s)]
  /\ failed' = [failed EXCEPT ![r] = IF @ = "none" THEN s ELSE @]

\* the page the handler's `page` variable refers to
PageRef(r) == page[r]

\* an operation on a page can always reject (crash, timeout, protocol error)
\* and does reject when the target is undefined or already closed
PageOutcomes(r) ==
  IF PageRef(r) = 0 \/ pages[PageRef(r)] # "open"
  THEN {"throw"}
  ELSE {"ok", "throw"}

Touch(r) ==
  users' = IF PageRef(r) = 0 THEN users
           ELSE [users EXCEPT ![PageRef(r)] = @ \cup {r}]

\* app.get(...) up to the first await: the url check
Arrive(r) ==
  /\ proc = "listening"
  /\ pc[r] = "idle"
  /\ \A q \in Requests : q < r => pc[q] # "idle"
  /\ \E o \in Ops, u \in Urls :
       /\ op' = [op EXCEPT ![r] = o]
       /\ url' = [url EXCEPT ![r] = u]
       /\ IF UrlMissing(u)
          THEN /\ resp' = [resp EXCEPT ![r] = Append(@, ParameterRequired)]
               /\ pc' = [pc EXCEPT ![r] = "done"]
          ELSE /\ resp' = resp
               /\ pc' = [pc EXCEPT ![r] = Program(variant, o)[1]]
  /\ UNCHANGED <<variant, proc, browser, closeCalls, page, own, located, nSel,
                 idx, captured, failed, steps, pages, users, pageCloses>>
  /\ UNCHANGED <<logged, fnVars>>

\* per-request revision: browser = await puppeteer.launch(...)
HandlerLaunch(r) ==
  /\ Running(r)
  /\ pc[r] = "launch"
  /\ \E outcome \in {"ok", "throw"} :
       IF outcome = "ok"
       THEN /\ own' = [own EXCEPT ![r] = "open"]
            /\ pc' = [pc EXCEPT ![r] = NextPc(variant, op[r], "launch")]
            /\ failed' = failed
       ELSE /\ own' = own
            /\ Throw(r, "launch")
  /\ UNCHANGED <<variant, proc, browser, closeCalls, op, url, page, located,
                 nSel, idx, captured, steps, resp, pages, users, pageCloses>>
  /\ UNCHANGED <<logged, fnVars>>

\* the browser handle newPage is called on
HandleUsable(r) ==
  IF SharedBrowser(variant) THEN browser # "null" ELSE own[r] = "open"

\* page = await browser.newPage(): a fresh page, named after its creator
NewPage(r) ==
  /\ Running(r)
  /\ pc[r] = "newPage"
  /\ \E outcome \in (IF HandleUsable(r) THEN {"ok", "throw"} ELSE {"throw"}) :
       IF outcome = "ok"
       THEN /\ page' = BindPage(r, r)
            /\ pages' = [pages EXCEPT ![r] = "open"]
            /\ users' = [users EXCEPT ![r] = @ \cup {r}]
            /\ pc' = [pc EXCEPT ![r] = NextPc(variant, op[r], "newPage")]
            /\ failed' = failed
       ELSE /\ UNCHANGED <<page, pages, users>>
            /\ Throw(r, "newPage")
  /\ UNCHANGED <<variant, proc, browser, closeCalls, op, url, own, located,
                 nSel, idx, captured, steps, resp, pageCloses>>
  /\ UNCHANGED <<logged, fnVars>>

\* configurePage, page.goto, scrollAndLoad, the suppression evaluate,
\* page.addScriptTag, the wait for images, page.screenshot({fullPage: true}):
\* each awaited, each completing or rejecting.  The waitForTimeout calls
\* before a statement are part of it.
PageStages ==
  {"configure", "goto", "lazyLoad", "suppress", "inject", "awaitImages",
   "capture"}

\* the removal rules the suppression code of a route applies, in order:
\* "selector" is the querySelectorAll(...).forEach(el => el.remove()) pass,
\* "zorder" the pass over '*' that removes fixed or sticky elements with a
\* z-index above 1000
SuppressionRules(v, o) ==
  CASE v = "perRequest" -> <<>>
    [] v = "replace" -> <<"selector", "zorder">>
    [] o = "screenshot" -> <<"selector", "zorder">>
    [] OTHER -> <<"selector">>

\* what a completed page stage adds to the record of the request
StageRecord(v, o, s) ==
  IF s = "suppress" THEN SuppressionRules(v, o) \o <<s>> ELSE <<s>>

PageOp(r) ==
  /\ Running(r)
  /\ pc[r] \in PageStages
  /\ Touch(r)
  /\ \E outcome \in PageOutcomes(r) :
       IF outcome = "ok"
       THEN /\ steps' = [steps EXCEPT ![r] =
                           @ \o StageRecord(variant, op[r], pc[r])]
            /\ pc' = [pc EXCEPT ![r] = NextPc(variant, op[r], pc[r])]
            /\ failed' = failed
       ELSE /\ steps' = steps
            /\ Throw(r, pc[r])
  /\ UNCHANGED <<variant, proc, browser, closeCalls, op, url, page, own,
                 located, nSel, idx, captured, resp, pages, pageCloses>>
  /\ UNCHANGED <<logged, fnVars>>

\* what the in-page function has done, in order, when it returns
EvaluateStages(v, o, loc) ==
  (IF v = "cdn" THEN StageRecord(v, o, "suppress") ELSE <<>>)
    \o <<"locate">>
    \o (IF loc = "Found"
        THEN IF o = "screenshot" THEN <<"render">> ELSE <<"select">>
        ELSE <<>>)

\* const readerModeApplied / articleFound / articleParsed / imageInfo =
\*   await page.evaluate(...)
Evaluate(r) ==
  /\ Running(r)
  /\ pc[r] = "evaluate"
  /\ Touch(r)
  /\ \E outcome \in PageOutcomes(r) :
       IF outcome = "ok"
       THEN \E lib \in BOOLEAN, parsed \in BOOLEAN, cand \in BOOLEAN,
               exc \in BOOLEAN, n \in 0..MaxImages :
              LET loc == Locate(variant, lib, parsed, cand, exc)
                  k == IF op[r] = "images" /\ loc = "Found" THEN n ELSE 0
              IN /\ variant # "cdn" => ~exc
                 /\ located' = [located EXCEPT ![r] = loc]
                 /\ nSel' = [nSel EXCEPT ![r] = k]
                 /\ steps' = [steps EXCEPT ![r] =
                                @ \o EvaluateStages(variant, op[r], loc)]
                 /\ pc' = [pc EXCEPT ![r] =
                             AfterEvaluate(variant, op[r], loc, k)]
                 /\ failed' = failed
       ELSE /\ UNCHANGED <<located, nSel, steps>>
            /\ Throw(r, "evaluate")
  /\ UNCHANGED <<variant, proc, browser, closeCalls, op, url, page, own, idx,
                 captured, resp, pages, pageCloses>>
  /\ UNCHANGED <<logged, fnVars>>

\* per-request revision: const imageElements = await page.$$('body img')
QueryImages(r) ==
  /\ Running(r)
  /\ pc[r] = "queryImages"
  /\ Touch(r)
  /\ \E outcome \in PageOutcomes(r) :
       IF outcome = "ok"
       THEN \E n \in 0..MaxImages :
              /\ nSel' = [nSel EXCEPT ![r] = n]
              /\ pc' = [pc EXCEPT ![r] =
                          LET nx == NextPc(variant, op[r], "queryImages")
                          IN IF nx = "captureLoop" /\ n = 0
                             THEN NextPc(variant, op[r], "captureLoop")
                             ELSE nx]
              /\ failed' = failed
       ELSE /\ nSel' = nSel
            /\ Throw(r, "queryImages")
  /\ UNCHANGED <<variant, proc, browser, closeCalls, op, url, page, own,
                 located, idx, captured, steps, resp, pages, pageCloses>>
  /\ UNCHANGED <<logged, fnVars>>

\* one iteration of `for (let i = 0; i < images.length; i++) { try {...}
\* catch (err) { console.error(...) } }`: the element is captured and pushed,
\* or page.$ finds no element, or a call throws and the loop's own catch
\* swallows it, console.error naming i.  The iteration that makes i reach
\* images.length leaves the loop.
LoopOutcomes(r) ==
  IF PageRef(r) = 0 \/ pages[PageRef(r)] # "open"
  THEN {"throw"}
  ELSE IF SharedBrowser(variant)
       THEN {"captured", "absent", "throw"}
       ELSE {"captured", "throw"}

CaptureLoop(r) ==
  /\ Running(r)
  /\ pc[r] = "captureLoop"
  /\ idx[r] < nSel[r]
  /\ Touch(r)
  /\ \E outcome \in LoopOutcomes(r) :
       /\ captured' = [captured EXCEPT ![r] =
                         IF outcome = "captured" THEN Append(@, idx[r]) ELSE @]
       /\ logged' = [logged EXCEPT ![r] =
                       IF outcome = "throw" THEN @ \cup {idx[r]} ELSE @]
  /\ idx' = [idx EXCEPT ![r] = @ + 1]
  /\ IF idx[r] + 1 = nSel[r]
     THEN /\ steps' = [steps EXCEPT ![r] = Append(@, "capture")]
          /\ pc' = [pc EXCEPT ![r] = NextPc(variant, op[r], "captureLoop")]
     ELSE UNCHANGED <<steps, pc>>
  /\ UNCHANGED <<variant, proc, browser, closeCalls, op, url, page, own,
                 located, nSel, failed, resp, pages, pageCloses>>
  /\ UNCHANGED fnVars

\* a close() that rejects may or may not have closed its target
AfterFailedClose(st) == {st, "closed"} \ {"none"}

\* await page.close() in the try block
ClosePage(r) ==
  /\ Running(r)
  /\ SharedBrowser(variant)
  /\ pc[r] = "close"
  /\ Touch(r)
  /\ LET p == PageRef(r)
     IN IF p = 0
        THEN /\ UNCHANGED <<pages, pageCloses>>
             /\ Throw(r, "close")
        ELSE /\ pageCloses' = [pageCloses EXCEPT ![p] = @ + 1]
             /\ \E outcome \in {"ok", "throw"} :
                  IF outcome = "ok"
                  THEN /\ pages' = [pages EXCEPT ![p] = "closed"]
                       /\ pc' = [pc EXCEPT ![r] =
                                   NextPc(variant, op[r], "close")]
                       /\ failed' = failed
                  ELSE /\ \E st \in AfterFailedClose(pages[p]) :
                            pages' = [pages EXCEPT ![p] = st]
                       /\ Throw(r, "close")
  /\ UNCHANGED <<variant, proc, browser, closeCalls, op, url, page, own,
                 located, nSel, idx, captured, steps, resp>>
  /\ UNCHANGED <<logged, fnVars>>

\* per-request revision: await browser.close() in the try block; closing the
\* browser closes its page
CloseOwnBrowser(r) ==
  /\ Running(r)
  /\ ~SharedBrowser(variant)
  /\ pc[r] = "close"
  /\ \E outcome \in {"ok", "throw"} :
       IF outcome = "ok"
       THEN /\ own' = [own EXCEPT ![r] = "closed"]
            /\ pages' = [pages EXCEPT ![r] = IF @ = "none" THEN @ ELSE "closed"]
            /\ pc' = [pc EXCEPT ![r] = NextPc(variant, op[r], "close")]
            /\ failed' = failed
       ELSE /\ \E st \in AfterFailedClose(own[r]) :
                 /\ own' = [own EXCEPT ![r] = st]
                 /\ pages' = [pages EXCEPT ![r] =
                                IF st = "closed" /\ @ # "none"
                                THEN "closed" ELSE @]
            /\ Throw(r, "close")
  /\ UNCHANGED <<variant, proc, browser, closeCalls, op, url, page, located,
                 nSel, idx, captured, steps, resp, users, pageCloses>>
  /\ UNCHANGED <<logged, fnVars>>

\* res.setHeader(...); res.send(...) / res.json(...) / return
\* res.status(4xx|500).json(...) inside the try block.  A call that throws
\* has written nothing.
Send(r) ==
  /\ Running(r)
  /\ pc[r] = "send"
  /\ \E outcome \in {"ok", "throw"} :
       IF outcome = "ok"
       THEN /\ resp' = [resp EXCEPT ![r] =
                          Append(@, ResponseFor(variant, op[r], located[r],
                                                nSel[r], captured[r]))]
            /\ pc' = [pc EXCEPT ![r] = NextPc(variant, op[r], "send")]
            /\ failed' = failed
       ELSE /\ resp' = resp
            /\ Throw(r, "send")
  /\ UNCHANGED <<variant, proc, browser, closeCalls, op, url, page, own,
                 located, nSel, idx, captured, steps, pages, users,
                 pageCloses>>
  /\ UNCHANGED <<logged, fnVars>>

\* catch (error) { if (page) await page.close(); ... } and, per-request
\* revision, if (browser) await browser.close().  When the close rejects the
\* handler's promise rejects and nothing further of it runs.
Catch(r) ==
  /\ Running(r)
  /\ pc[r] = "catch"
  /\ IF ~CatchCloses(r)
     THEN /\ pc' = [pc EXCEPT ![r] = "catchSend"]
          /\ UNCHANGED <<own, pages, users, pageCloses>>
     ELSE IF SharedBrowser(variant)
     THEN LET p == PageRef(r)
          IN /\ Touch(r)
             /\ pageCloses' = [pageCloses EXCEPT ![p] = @ + 1]
             /\ own' = own
             /\ \E outcome \in {"ok", "throw"} :
                  IF outcome = "ok"
                  THEN /\ pages' = [pages EXCEPT ![p] = "closed"]
                       /\ pc' = [pc EXCEPT ![r] = "catchSend"]
                  ELSE /\ \E st \in AfterFailedClose(pages[p]) :
                            pages' = [pages EXCEPT ![p] = st]
                       /\ pc' = [pc EXCEPT ![r] = "done"]
     ELSE /\ UNCHANGED <<users, pageCloses>>
          /\ \E outcome \in {"ok", "throw"} :
               IF outcome = "ok"
               THEN /\ own' = [own EXCEPT ![r] = "closed"]
                    /\ pages' = [pages EXCEPT ![r] =
                                   IF @ = "none" THEN @ ELSE "closed"]
                    /\ pc' = [pc EXCEPT ![r] = "catchSend"]
               ELSE /\ \E st \in AfterFailedClose(own[r]) :
                         /\ own' = [own EXCEPT ![r] = st]
                         /\ pages' = [pages EXCEPT ![r] =
                                        IF st = "closed" /\ @ # "none"
                                        THEN "closed" ELSE @]
                    /\ pc' = [pc EXCEPT ![r] = "done"]
  /\ UNCHANGED <<variant, proc, browser, closeCalls, op, url, page, located,
                 nSel, idx, captured, failed, steps, resp>>
  /\ UNCHANGED <<logged, fnVars>>

\* res.status(500).json({ error: ..., message: error.message })
CatchSend(r) ==
  /\ Running(r)
  /\ pc[r] = "catchSend"
  /\ resp' = [resp EXCEPT ![r] = Append(@, FailureResult)]
  /\ pc' = [pc EXCEPT ![r] = "done"]
  /\ UNCHANGED <<variant, proc, browser, closeCalls, op, url, page, own,
                 located, nSel, idx, captured, failed, steps, pages, users,
                 pageCloses>>
  /\ UNCHANGED <<logged, fnVars>>

\* ------------------------------------------------------------ shutdown
\* A termination signal.  With the handlers installed (process.on('SIGINT',
\* shutdown), SIGTERM, SIGHUP) it runs shutdown() up to its await: a null
\* handle goes straight to process.exit(0), otherwise browser.close() is
\* called.  The per-request revision installs no handler and the signal ends
\* the process.
Signal ==
  /\ ~Exited
  /\ closeCalls < MaxSignals
  /\ IF SharedBrowser(variant) /\ browser # "null"
     THEN /\ closeCalls' = closeCalls + 1
          /\ browser' = "closing"
          /\ proc' = proc
     ELSE /\ proc' = IF SharedBrowser(variant) THEN "exit0" ELSE "killed"
          /\ UNCHANGED <<browser, closeCalls>>
  /\ UNCHANGED variant
  /\ UNCHANGED reqVars
  /\ UNCHANGED <<logged, fnVars>>

\* an awaited browser.close() of shutdown() resolves: every page of the
\* browser is gone, then process.exit(0)
ShutdownExit ==
  /\ ~Exited
  /\ closeCalls > 0
  /\ proc' = "exit0"
  /\ pages' = [p \in Requests |-> IF pages[p] = "open" THEN "closed" ELSE pages[p]]
  /\ UNCHANGED <<variant, browser, closeCalls, pc, op, url, page, own,
                 located, nSel, idx, captured, failed, steps, resp, users,
                 pageCloses>>
  /\ UNCHANGED <<logged, fnVars>>

Next ==
  \/ initBrowser
  \/ Listen
  \/ \E r \in Requests : Arrive(r)
  \/ \E r \in Requests : HandlerLaunch(r)
  \/ \E r \in Requests : NewPage(r)
  \/ \E r \in Requests : PageOp(r)
  \/ \E r \in Requests : Evaluate(r)
  \/ \E r \in Requests : QueryImages(r)
  \/ \E r \in Requests : CaptureLoop(r)
  \/ \E r \in Requests : ClosePage(r)
  \/ \E r \in Requests : CloseOwnBrowser(r)
  \/ \E r \in Requests : Send(r)
  \/ \E r \in Requests : Catch(r)
  \/ \E r \in Requests : CatchSend(r)
  \/ Signal
  \/ ShutdownExit

Spec == Init /\ [][Next]_vars

\* the server handling one request from start-up to exit
NextSingle ==
  \/ initBrowser
  \/ Listen
  \/ Arrive(1)
  \/ HandlerLaunch(1)
  \/ NewPage(1)
  \/ PageOp(1)
  \/ Evaluate(1)
  \/ QueryImages(1)
  \/ CaptureLoop(1)
  \/ ClosePage(1)
  \/ CloseOwnBrowser(1)
  \/ Send(1)
  \/ Catch(1)
  \/ CatchSend(1)
  \/ Signal
  \/ ShutdownExit

SpecSingle == Init /\ [][NextSingle]_vars

\* whatever the handler of r does next: every awaited browser operation
\* returns or throws and the statement after it runs
HandlerStep(r) ==
  \/ HandlerLaunch(r)
  \/ NewPage(r)
  \/ PageOp(r)
  \/ Evaluate(r)
  \/ QueryImages(r)
  \/ CaptureLoop(r)
  \/ ClosePage(r)
  \/ CloseOwnBrowser(r)
  \/ Send(r)
  \/ Catch(r)
  \/ CatchSend(r)

\* SpecSingle with start-up, the handler and a started shutdown running on;
\* requests and signals arrive as they please
SpecSingleFair ==
  /\ Init
  /\ [][NextSingle]_vars
  /\ WF_vars(initBrowser)
  /\ WF_vars(Listen)
  /\ WF_vars(HandlerStep(1))
  /\ WF_vars(ShutdownExit)

\* ------------------------------------------------------------ images in the page
\* thresholds of the size filter
MinWidth == 200
MinHeight == 100

\* JavaScript `a || b` on numbers (0 and NaN are falsy) and on strings
OrNum(a, b) == IF a # 0 THEN a ELSE b
OrStr(a, b) == IF a # "" THEN a ELSE b

\* parseInt of a width/height attribute or of a computed z-index; NaN
\* (absent, "auto") is written 0 since it is only ever used as the left
\* operand of || or of > 1000, where the two behave alike
ParseInt(a) ==
  CASE a = "300px" -> 300
    [] a = "300" -> 300
    [] a = "50" -> 50
    [] a = "1000" -> 1000
    [] a = "1001" -> 1001
    [] OTHER -> 0

\* value?.split(' ')[0] of a srcset attribute, given as its space-separated
\* tokens (<<>> when the attribute is absent)
FirstToken(tokens) == IF Len(tokens) = 0 THEN "" ELSE tokens[1]

\* src.includes('data:'), src.includes('data:image'),
\* src.includes('placeholder') on the source strings the model draws
IncludesData(src) == src \in {"data:image/gif", "data:text/plain"}
IncludesDataImage(src) == src = "data:image/gif"
IncludesPlaceholder(src) == src = "/placeholder.gif"

\* render path: the source chosen for an <img>
PossibleSrcRender(img) ==
  IF img.src # "" /\ ~IncludesData(img.src) /\ ~IncludesPlaceholder(img.src)
  THEN img.src
  ELSE OrStr(img.dataSrc,
       OrStr(img.dataLazySrc,
       OrStr(img.dataOriginal,
       OrStr(FirstToken(img.dataSrcset), FirstToken(img.srcset)))))

\* render path: document.querySelectorAll('img').forEach(img => {...}) body
FixLazyRender(img) ==
  LET possibleSrc == PossibleSrcRender(img)
      set == IF possibleSrc # "" /\ possibleSrc # img.src
             THEN [img EXCEPT !.src = possibleSrc]
             ELSE img
  IN [set EXCEPT !.dataSrc = "", !.dataLazySrc = "", !.dataOriginal = ""]

\* images path: images.forEach(img => { if (!img.src || ...) {...} }) body
FixLazyImages(img) ==
  IF img.src = "" \/ IncludesDataImage(img.src)
  THEN LET possibleSrc == OrStr(img.dataSrc,
                          OrStr(img.dataLazySrc,
                          OrStr(img.dataOriginal, FirstToken(img.dataSrcset))))
       IN IF possibleSrc # "" THEN [img EXCEPT !.src = possibleSrc] ELSE img
  ELSE img

\* the width and height the filter and the descriptor use
WidthOf(v, img) ==
  IF v = "replace"
  THEN OrNum(img.naturalWidth, OrNum(img.width, OrNum(ParseInt(img.attrWidth), 0)))
  ELSE OrNum(img.naturalWidth, OrNum(img.width, 0))

HeightOf(v, img) ==
  IF v = "replace"
  THEN OrNum(img.naturalHeight,
             OrNum(img.height, OrNum(ParseInt(img.attrHeight), 0)))
  ELSE OrNum(img.naturalHeight, OrNum(img.height, 0))

\* the src the replace revision's filter and descriptor use
SrcOf(v, img) ==
  IF v = "replace" THEN OrStr(img.src, OrStr(img.dataSrc, "")) ELSE img.src

\* a size test that accepts an image large in either direction
LargeEnoughEither(v, img) ==
  WidthOf(v, img) >= MinWidth \/ HeightOf(v, img) >= MinHeight

\* return w >= 200 && h >= 100
LargeEnough(v, img) ==
  WidthOf(v, img) >= MinWidth /\ HeightOf(v, img) >= MinHeight

\* the callback of images.filter(...)
Keeps(v, img) ==
  /\ v = "replace" => ~(SrcOf(v, img) = "" \/ IncludesDataImage(SrcOf(v, img)))
  /\ LargeEnough(v, img)

\* the callback of contentImages.map((img, idx) => ({ index: idx, ... }))
Descriptor(v, img, i) ==
  [index |-> i, src |-> SrcOf(v, img), alt |-> img.alt,
   width |-> WidthOf(v, img), height |-> HeightOf(v, img)]

\* contentImages: the <img> elements under the article, in document order,
\* after the lazy-source fix-up of the revision that has one, filtered
ContentImages(v, imgs) ==
  LET fixed == IF v = "replace"
               THEN [i \in 1..Len(imgs) |-> FixLazyImages(imgs[i])]
               ELSE imgs
  IN SelectSeq(fixed, LAMBDA g : Keeps(v, g))

\* a selection that numbers the images before it filters them
SelectImagesDomIndexed(v, imgs) ==
  LET fixed == IF v = "replace"
               THEN [i \in 1..Len(imgs) |-> FixLazyImages(imgs[i])]
               ELSE imgs
      numbered == [i \in 1..Len(imgs) |-> Descriptor(v, fixed[i], i - 1)]
      kept == {i \in 1..Len(imgs) : Keeps(v, fixed[i])}
  IN [k \in 1..Cardinality(kept) |->
        numbered[CHOOSE i \in kept :
                   Cardinality({j \in kept : j < i}) = k - 1]]

\* the image part of the in-page function: the <img> elements under the
\* article to the descriptors returned
SelectImages(v, imgs) ==
  LET contentImages == ContentImages(v, imgs)
  IN [i \in 1..Len(contentImages) |-> Descriptor(v, contentImages[i], i - 1)]

\* imageBuffers after the capture loop, given the descriptor indices whose
\* capture succeeded: the loop pushes in increasing i
RECURSIVE Pushed(_)
Pushed(S) ==
  IF S = {} THEN <<>>
  ELSE LET i == CHOOSE x \in S : \A y \in S : x <= y
       IN <<i>> \o Pushed(S \ {i})

\* src and lazy-loading attributes of the <img> elements the model draws
SrcCases ==
  { [src |-> "/a.jpg", dataSrc |-> ""],
    [src |-> "", dataSrc |-> ""],
    [src |-> "", dataSrc |-> "/lazy.jpg"],
    [src |-> "data:image/gif", dataSrc |-> ""],
    [src |-> "data:image/gif", dataSrc |-> "/lazy.jpg"] }

\* natural size, layout size and size attributes of those elements
DimCases ==
  { [nat |-> <<200, 100>>, box |-> <<50, 50>>, attr |-> ""],
    [nat |-> <<199, 100>>, box |-> <<300, 300>>, attr |-> ""],
    [nat |-> <<200, 99>>, box |-> <<300, 300>>, attr |-> ""],
    [nat |-> <<0, 0>>, box |-> <<200, 100>>, attr |-> ""],
    [nat |-> <<0, 0>>, box |-> <<0, 0>>, attr |-> "300px"],
    [nat |-> <<0, 0>>, box |-> <<0, 0>>, attr |-> ""] }

\* an <img> element; alt is set to the element's position in the document
Img(s, d, k) ==
  [src |-> s.src, dataSrc |-> s.dataSrc, dataLazySrc |-> "",
   dataOriginal |-> "", dataSrcset |-> <<>>, srcset |-> <<>>,
   naturalWidth |-> d.nat[1], naturalHeight |-> d.nat[2],
   width |-> d.box[1], height |-> d.box[2],
   attrWidth |-> d.attr, attrHeight |-> d.attr, alt |-> k]

\* the lists of <img> elements found under an article
ImageLists ==
  UNION { [1..n -> SrcCases \X DimCases] : n \in 0..MaxImages }

\* revisions whose images route selects among the article's images
Selecting == {"cdn", "inplace", "replace"}

InitImages ==
  /\ variant \in Selecting
  /\ Boot
  /\ fn = "images"
  /\ \E l \in ImageLists :
       dom = [k \in 1..Len(l) |-> Img(l[k][1], l[k][2], k)]
  /\ ret = [images |-> <<>>, entries |-> <<>>, again |-> <<>>]

\* articleElement.querySelectorAll('img') ... return { success: true, images }
Select ==
  /\ fn = "images"
  /\ fn' = "selected"
  /\ ret' = [ret EXCEPT !.images = SelectImages(variant, dom)]
  /\ UNCHANGED <<variant, dom, proc, browser, closeCalls, logged>>
  /\ UNCHANGED reqVars

\* the capture loop over the descriptors and the response built from
\* imageBuffers
CaptureAll ==
  /\ fn = "selected"
  /\ fn' = "responded"
  /\ \E S \in SUBSET (0..(Len(ret.images) - 1)) :
       ret' = [ret EXCEPT !.entries = ImageEntries(Pushed(S))]
  /\ UNCHANGED <<variant, dom, proc, browser, closeCalls, logged>>
  /\ UNCHANGED reqVars

\* the same page function evaluated on the elements it has kept
Reselect ==
  /\ fn = "selected"
  /\ fn' = "reselected"
  /\ ret' = [ret EXCEPT
               !.again = SelectImages(variant, ContentImages(variant, dom))]
  /\ UNCHANGED <<variant, dom, proc, browser, closeCalls, logged>>
  /\ UNCHANGED reqVars

NextImages == Select \/ CaptureAll \/ Reselect

SpecImages == InitImages /\ [][NextImages]_vars

\* ------------------------------------------------------------ lazy sources
\* values of the src property and of the lazy-loading attributes drawn for
\* one <img> ("" and <<>> stand for an absent or empty attribute)
SrcValues ==
  {"", "data:image/gif", "data:text/plain", "/placeholder.gif", "/a.jpg"}

LazyImages ==
  { [src |-> s, dataSrc |-> a, dataLazySrc |-> b, dataOriginal |-> c,
     dataSrcset |-> d, srcset |-> e,
     naturalWidth |-> 0, naturalHeight |-> 0, width |-> 300, height |-> 300,
     attrWidth |-> "300", attrHeight |-> "300", alt |-> 1] :
      s \in SrcValues, a \in {"", "/lazy.jpg"}, b \in {"", "/lazy2.jpg"},
      c \in {"", "/orig.jpg"}, d \in {<<>>, <<"/set.jpg", "1x">>},
      e \in {<<>>, <<"/s.jpg", "2x">>} }

\* an <img> of the article, in the revision that rewrites lazy sources
InitResolve ==
  /\ variant = "replace"
  /\ Boot
  /\ fn = "img"
  /\ dom \in LazyImages
  /\ ret = ""

\* /screenshot: the forEach over the images of the rewritten body
ResolveOnRender ==
  /\ fn = "img"
  /\ fn' = "render"
  /\ ret' = FixLazyRender(dom).src
  /\ UNCHANGED <<variant, dom, proc, browser, closeCalls, logged>>
  /\ UNCHANGED reqVars

\* /screenshot/images: the forEach over the images of the parsed article
ResolveOnImages ==
  /\ fn = "img"
  /\ fn' = "images"
  /\ ret' = FixLazyImages(dom).src
  /\ UNCHANGED <<variant, dom, proc, browser, closeCalls, logged>>
  /\ UNCHANGED reqVars

NextResolve == ResolveOnRender \/ ResolveOnImages

SpecResolve == InitResolve /\ [][NextResolve]_vars

\* ------------------------------------------------------------ article location
MaxCandidates == 3

\* floors of the density scan: innerText length, summed paragraph length
FloorInnerText == 500
FloorParagraphText == 200
\* weight of one <p> in the score of the innerText scan
ParagraphWeight == 100

\* elements of the live document that a scan can visit, in document order;
\* an element with role="main" is written as "main", which every selector of
\* the scans treats alike
Tags == {"article", "main", "div", "section"}

\* innerText length, number of <p> descendants and summed textContent length
\* of those <p>
TextCases ==
  { [innerText |-> 600, paragraphs |-> 2, pText |-> 600],
    [innerText |-> 50, paragraphs |-> 1, pText |-> 50],
    [innerText |-> 500, paragraphs |-> 3, pText |-> 200],
    [innerText |-> 501, paragraphs |-> 0, pText |-> 0],
    [innerText |-> 450, paragraphs |-> 1, pText |-> 201] }

Element(tag, t) ==
  [tag |-> tag, innerText |-> t.innerText, paragraphs |-> t.paragraphs,
   pText |-> t.pText]

Documents ==
  UNION { [1..n -> {Element(tag, t) : tag \in Tags, t \in TextCases}] :
            n \in 0..MaxCandidates }

\* revisions that look for the article element in the live document
Locating == {"cdn", "inplace"}

\* for (const el of articles) { if (el.innerText.length > 500) {...; break} }
RECURSIVE FirstLong(_, _)
FirstLong(els, i) ==
  IF i > Len(els) THEN 0
  ELSE IF els[i].tag \in {"article", "main"} /\ els[i].innerText > FloorInnerText
       THEN i
       ELSE FirstLong(els, i + 1)

\* allElements.forEach(el => { ... if (score > maxScore && textLength > 500)
\* { maxScore = score; bestMatch = el } })
RECURSIVE BestMatch(_, _, _, _)
BestMatch(els, i, bestMatch, maxScore) ==
  IF i > Len(els) THEN bestMatch
  ELSE LET el == els[i]
           score == el.innerText + el.paragraphs * ParagraphWeight
       IN IF /\ el.tag \in {"div", "section", "article"}
             /\ score > maxScore
             /\ el.innerText > FloorInnerText
          THEN BestMatch(els, i + 1, i, score)
          ELSE BestMatch(els, i + 1, bestMatch, maxScore)

\* querySelectorAll('article, main, [role="main"], div').forEach(el => { ...
\* if (textLength > maxTextLength && textLength > 200) {...} })
RECURSIVE MostParagraphText(_, _, _, _)
MostParagraphText(els, i, articleElement, maxTextLength) ==
  IF i > Len(els) THEN articleElement
  ELSE LET el == els[i]
       IN IF /\ el.tag \in {"article", "main", "div"}
             /\ el.pText > maxTextLength
             /\ el.pText > FloorParagraphText
          THEN MostParagraphText(els, i + 1, i, el.pText)
          ELSE MostParagraphText(els, i + 1, articleElement, maxTextLength)

\* the search for articleElement in the live document: position of the
\* element found, 0 for null
DensityScan(v, els) ==
  IF v = "cdn"
  THEN IF FirstLong(els, 1) # 0
       THEN FirstLong(els, 1)
       ELSE BestMatch(els, 1, 0, 0)
  ELSE MostParagraphText(els, 1, 0, 0)

\* articleElement as the page function leaves it: the scan is reached only
\* past the two early returns on Readability
ArticleElement(v, lib, parsed, els) ==
  IF lib /\ parsed THEN DensityScan(v, els) ELSE 0

\* a document, whether the Readability script defined its global, and
\* whether reader.parse() returns an article for the document
InitLocate ==
  /\ variant \in Locating
  /\ Boot
  /\ fn = "document"
  /\ \E lib \in BOOLEAN, parsed \in BOOLEAN, els \in Documents :
       /\ ~lib => ~parsed
       /\ dom = [lib |-> lib, parsed |-> parsed, els |-> els]
  /\ ret = [element |-> 0, status |-> "none"]

\* the page function up to `if (!articleElement) return ...`
LocateArticle ==
  /\ fn = "document"
  /\ fn' = "located"
  /\ LET el == ArticleElement(variant, dom.lib, dom.parsed, dom.els)
     IN ret' = [element |-> el,
                status |-> Locate(variant, dom.lib, dom.parsed, el # 0, FALSE)]
  /\ UNCHANGED <<variant, dom, proc, browser, closeCalls, logged>>
  /\ UNCHANGED reqVars

NextLocate == LocateArticle

SpecLocate == InitLocate /\ [][NextLocate]_vars

\* ------------------------------------------------------------ noise suppression
MaxElements == 3

\* z-index above which a fixed or sticky element is removed
ZThreshold == 1000

\* class, computed position and computed z-index of the elements the model
\* draws; "modal" is matched by every selector list, "banner" only by the
\* list of the cdn revision's /screenshot
ElementCases ==
  { [cls |-> "", position |-> "static", zIndex |-> "auto"],
    [cls |-> "modal", position |-> "static", zIndex |-> "auto"],
    [cls |-> "banner", position |-> "static", zIndex |-> "auto"],
    [cls |-> "", position |-> "fixed", zIndex |-> "1001"],
    [cls |-> "", position |-> "fixed", zIndex |-> "1000"],
    [cls |-> "", position |-> "fixed", zIndex |-> "auto"],
    [cls |-> "", position |-> "sticky", zIndex |-> "1001"],
    [cls |-> "", position |-> "absolute", zIndex |-> "1001"],
    [cls |-> "modal", position |-> "fixed", zIndex |-> "1001"] }

\* the parent positions of n elements in document order (0 for a child of
\* the root): the parent of an element precedes it
Shapes(n) == {p \in [1..n -> 0..(n - 1)] : \A i \in 1..n : p[i] < i}

\* the elements of a document in document order, each with the position of
\* its parent element
Tree(c, p) ==
  [i \in DOMAIN c |-> [cls |-> c[i].cls, position |-> c[i].position,
                       zIndex |-> c[i].zIndex, parent |-> p[i]]]

\* j is i or a descendant of i
RECURSIVE InSubtree(_, _, _)
InSubtree(els, i, j) ==
  \/ j = i
  \/ j > i /\ els[j].parent # 0 /\ InSubtree(els, i, els[j].parent)

\* el.remove(): el and its descendants leave the document
Remove(els, present, i) == {j \in present : ~InSubtree(els, i, j)}

\* the selector lists, by the class they match
PopupSelectors(v, o) ==
  IF v = "cdn" /\ o = "screenshot" THEN <<"modal", "banner">> ELSE <<"modal">>

\* a removal that takes the first match of a selector only
RECURSIVE RemoveAllFirstOnly(_, _, _, _)
RemoveAllFirstOnly(els, present, cls, i) ==
  IF i > Len(els) THEN present
  ELSE IF i \in present /\ els[i].cls = cls
       THEN Remove(els, present, i)
       ELSE RemoveAllFirstOnly(els, present, cls, i + 1)

\* document.querySelectorAll(selector).forEach(el => el.remove()), from
\* element i of the list on
RECURSIVE RemoveAll(_, _, _, _)
RemoveAll(els, present, cls, i) ==
  IF i > Len(els) THEN present
  ELSE IF i \in present /\ els[i].cls = cls
       THEN RemoveAll(els, Remove(els, present, i), cls, i + 1)
       ELSE RemoveAll(els, present, cls, i + 1)

\* popupSelectors.forEach(selector => ...), from selector k on
RECURSIVE SelectorRemoval(_, _, _, _)
SelectorRemoval(els, present, sels, k) ==
  IF k > Len(sels) THEN present
  ELSE SelectorRemoval(els, RemoveAll(els, present, sels[k], 1), sels, k + 1)

\* parseInt(style.zIndex) || 0, resp. parseInt(style.zIndex || 0)
ZIndex(v, z) ==
  IF v = "cdn" THEN OrNum(ParseInt(z), 0) ELSE ParseInt(OrStr(z, "0"))

\* a test that also takes an element at the threshold
QualifiesFromThreshold(v, el) ==
  /\ el.position \in {"fixed", "sticky"}
  /\ ZIndex(v, el.zIndex) >= ZThreshold

\* (position === 'fixed' || position === 'sticky') && zIndex > 1000
Qualifies(v, el) ==
  /\ el.position \in {"fixed", "sticky"}
  /\ ZIndex(v, el.zIndex) > ZThreshold

\* document.querySelectorAll('*').forEach(el => {...}), from element i on;
\* an element already out of the document has an empty computed style
RECURSIVE ZOrderRemoval(_, _, _, _)
ZOrderRemoval(v, els, present, i) ==
  IF i > Len(els) THEN present
  ELSE IF i \in present /\ Qualifies(v, els[i])
       THEN ZOrderRemoval(v, els, Remove(els, present, i), i + 1)
       ELSE ZOrderRemoval(v, els, present, i + 1)

\* one suppression rule applied to the document
ApplyRule(v, o, rule, els, present) ==
  IF rule = "selector"
  THEN SelectorRemoval(els, present, PopupSelectors(v, o), 1)
  ELSE ZOrderRemoval(v, els, present, 1)

\* revisions that suppress noise
Suppressing == {"cdn", "inplace", "replace"}

\* a loaded document on one of the two routes
InitSuppress ==
  /\ variant \in Suppressing
  /\ Boot
  /\ fn = "noisy"
  /\ \E o \in {"screenshot", "images"}, n \in 0..MaxElements :
       \E c \in [1..n -> ElementCases], p \in Shapes(n) :
         /\ dom = [route |-> o, els |-> Tree(c, p)]
         /\ ret = [present |-> 1..n, before |-> 1..n, applied |-> <<>>]

\* the next rule of the route's suppression stage
Suppress ==
  /\ fn = "noisy"
  /\ Len(ret.applied) < Len(SuppressionRules(variant, dom.route))
  /\ LET rule == SuppressionRules(variant, dom.route)[Len(ret.applied) + 1]
     IN ret' = [present |-> ApplyRule(variant, dom.route, rule, dom.els,
                                      ret.present),
                before |-> ret.present,
                applied |-> Append(ret.applied, rule)]
  /\ UNCHANGED <<variant, dom, proc, browser, closeCalls, logged, fn>>
  /\ UNCHANGED reqVars

\* a rule of the stage applied once more to the document it has left
Reapply ==
  /\ fn = "noisy"
  /\ fn' = "reapplied"
  /\ \E k \in 1..Len(ret.applied) :
       LET rule == ret.applied[k]
       IN ret' = [present |-> ApplyRule(variant, dom.route, rule, dom.els,
                                        ret.present),
                  before |-> ret.present,
                  applied |-> Append(ret.applied, rule)]
  /\ UNCHANGED <<variant, dom, proc, browser, closeCalls, logged>>
  /\ UNCHANGED reqVars

NextSuppress == Suppress \/ Reapply

SpecSuppress == InitSuppress /\ [][NextSuppress]_vars

\* ------------------------------------------------------------ reader view
MaxNodes == 4

\* the elements the renderer tells apart: containers, blocks its strip
\* selectors match, images
NodeTags == {"div", "nav", "img"}

\* elements of the body in document order, each with the position of its
\* parent (0 for a child of body); the src of an <img> is written as a
\* number that stands for its URL
Page(t, p) ==
  [i \in DOMAIN t |-> [tag |-> t[i], parent |-> p[i],
                       src |-> IF t[i] = "img" THEN i ELSE 0]]

\* the wrapper <div> the renderer creates
Wrapper(els) == Len(els) + 1

\* parent of every element and of the wrapper; -1 for an element that has
\* none
ParentsOf(els) ==
  [i \in 1..Wrapper(els) |-> IF i <= Len(els) THEN els[i].parent ELSE -1]

\* c.contains(x): x is c or a descendant of c
RECURSIVE Under(_, _, _)
Under(par, c, x) ==
  \/ x = c
  \/ par[x] > 0 /\ Under(par, c, par[x])

\* x is connected to the document
RECURSIVE Attached(_, _)
Attached(par, x) ==
  \/ par[x] = 0
  \/ par[x] > 0 /\ Attached(par, par[x])

\* the statements of the renderer after `if (!articleElement) return false`
RenderSteps(v) ==
  IF v = "cdn"
  THEN <<"bodyStyle", "removeChildren", "append", "removeImages", "strip">>
  ELSE <<"bodyStyle", "hideChildren", "wrap", "strip", "styleImages">>

\* articleImages.map(img => img.src)
ArticleImageSrcs(els, a) ==
  {els[i].src : i \in {j \in 1..Len(els) :
                         els[j].tag = "img" /\ Under(ParentsOf(els), a, j)}}

\* a loop over the children of body that hides every one of them
HideChildrenAll(par, a, hidden) ==
  hidden \cup {c \in DOMAIN par : par[c] = 0}

\* Array.from(document.body.children).forEach(child => { if
\* (!child.contains(articleElement) && child !== articleElement)
\* child.style.display = 'none' })
HideChildren(par, a, hidden) ==
  hidden \cup {c \in DOMAIN par : par[c] = 0 /\ ~Under(par, c, a) /\ c # a}

\* articleElement.querySelectorAll('nav, header, ...').forEach(el =>
\* el.remove())
Strip(els, par, a) ==
  [i \in DOMAIN par |->
     IF i <= Len(els) /\ i # a /\ els[i].tag = "nav" /\ Under(par, a, i)
     THEN -1 ELSE par[i]]

\* one statement of the renderer applied to the document d, a being the
\* article element
ApplyStep(v, step, els, a, d) ==
  LET W == Wrapper(els)
      imgs == {i \in 1..Len(els) : els[i].tag = "img"}
  IN CASE step = "bodyStyle" ->
            [d EXCEPT !.styled = @ \cup {0}]
       [] step = "removeChildren" ->
            [d EXCEPT !.par = [i \in DOMAIN @ |->
                                 IF @[i] = 0 THEN -1 ELSE @[i]]]
       [] step = "append" ->
            [d EXCEPT !.par = [@ EXCEPT ![a] = W, ![W] = 0],
                      !.styled = @ \cup {W, a}]
       [] step = "removeImages" ->
            LET live == {i \in imgs : Attached(d.par, i)}
                gone == {i \in live : d.src[i] \notin ArticleImageSrcs(els, a)}
            IN [d EXCEPT !.par = [i \in DOMAIN @ |->
                                    IF i \in gone THEN -1 ELSE @[i]],
                         !.styled = @ \cup (live \ gone)]
       [] step = "hideChildren" ->
            [d EXCEPT !.hidden = HideChildren(d.par, a, @)]
       [] step = "wrap" ->
            [d EXCEPT !.par = [@ EXCEPT ![W] = d.par[a], ![a] = W],
                      !.styled = @ \cup {W, a}]
       [] step = "strip" ->
            [d EXCEPT !.par = Strip(els, @, a)]
       [] step = "styleImages" ->
            [d EXCEPT !.styled = @ \cup {i \in imgs : Under(d.par, a, i)}]

\* the document as loaded
Loaded(els) ==
  [par |-> ParentsOf(els), hidden |-> {}, styled |-> {},
   src |-> [i \in 1..Len(els) |-> els[i].src]]

\* a suppressed document, whether Readability is defined and parses it, and
\* the element the scan finds (0 for none)
InitRender ==
  /\ variant \in Locating
  /\ Boot
  /\ fn = "page"
  /\ \E lib \in BOOLEAN, parsed \in BOOLEAN, n \in 0..MaxNodes :
       \E t \in [1..n -> NodeTags], p \in Shapes(n) :
         \E a \in {0} \cup {i \in 1..n : t[i] = "div"} :
           /\ \A i \in 1..n : p[i] # 0 => t[p[i]] # "img"
           /\ ~lib => ~parsed
           /\ ~parsed => a = 0
           /\ dom = [lib |-> lib, parsed |-> parsed, article |-> a,
                     els |-> Page(t, p)]
           /\ ret = [doc |-> Loaded(Page(t, p)), step |-> 0,
                     returned |-> "none", shot |-> "none"]

\* the renderer is reached with an article element
Renders == dom.lib /\ dom.parsed /\ dom.article # 0

\* return false for a missing library, a null parse or no article element
DeclineRender ==
  /\ fn = "page"
  /\ ~Renders
  /\ fn' = "returned"
  /\ ret' = [ret EXCEPT !.returned = "false"]
  /\ UNCHANGED <<variant, dom, proc, browser, closeCalls, logged>>
  /\ UNCHANGED reqVars

\* the next statement of the renderer; after the last one, return true
RenderStep ==
  /\ fn \in {"page", "rendering"}
  /\ Renders
  /\ LET steps_ == RenderSteps(variant)
         k == ret.step + 1
         last == k = Len(steps_)
     IN /\ fn' = IF last THEN "returned" ELSE "rendering"
        /\ ret' = [ret EXCEPT
                     !.doc = ApplyStep(variant, steps_[k], dom.els,
                                       dom.article, @),
                     !.step = k,
                     !.returned = IF last THEN "true" ELSE @]
  /\ UNCHANGED <<variant, dom, proc, browser, closeCalls, logged>>
  /\ UNCHANGED reqVars

\* the next statement throws: the cdn revision's page function catches it
\* and returns false, the inplace revision's page.evaluate rejects
RenderThrows ==
  /\ fn \in {"page", "rendering"}
  /\ Renders
  /\ IF variant = "cdn"
     THEN /\ fn' = "returned"
          /\ ret' = [ret EXCEPT !.returned = "false"]
     ELSE /\ fn' = "rejected"
          /\ ret' = [ret EXCEPT !.returned = "threw"]
  /\ UNCHANGED <<variant, dom, proc, browser, closeCalls, logged>>
  /\ UNCHANGED reqVars

\* page.screenshot({ fullPage: true }) of the document as it stands
CaptureFullPage ==
  /\ fn = "returned"
  /\ fn' = "captured"
  /\ ret' = [ret EXCEPT !.shot = ret.doc]
  /\ UNCHANGED <<variant, dom, proc, browser, closeCalls, logged>>
  /\ UNCHANGED reqVars

NextRender == DeclineRender \/ RenderStep \/ RenderThrows \/ CaptureFullPage

SpecRender == InitRender /\ [][NextRender]_vars

\* ------------------------------------------------------------ lazy-load scroll
MaxTicks == 30

\* const distance = 100
Distance == 100
\* page.setViewport({ width: 1920, height: 1080 })
ViewportHeight == 1080

\* document.body.scrollHeight when the loop starts
Heights == {0, 50, 100, 101, 250, 1300}

\* how a page grows while it is scrolled: not at all, by a block of lazy
\* content after each of its first `load` ticks, by less than a step after
\* every tick, or by a step or more after every tick
PageKinds == {"constant", "settling", "slow", "endless"}

ScrolledPages ==
  { [height |-> h, kind |-> k, load |-> IF k = "settling" THEN l ELSE 0] :
      h \in Heights, k \in PageKinds, l \in 1..3 }

\* what the page may add to its height after tick k
Growths(pg, k) ==
  CASE pg.kind = "constant" -> {0}
    [] pg.kind = "settling" -> IF k <= pg.load THEN {150} ELSE {0}
    [] pg.kind = "slow" -> {50}
    [] pg.kind = "endless" -> {100, 150}

\* a loop test that also gives up after five steps
ReachedOrTired(totalHeight, scrollHeight) ==
  totalHeight >= scrollHeight \/ totalHeight >= 5 * Distance

\* if (totalHeight >= scrollHeight)
Reached(totalHeight, scrollHeight) == totalHeight >= scrollHeight

\* window.scrollBy(0, distance): the position is clamped to the scrollable
\* range of the document
ScrollBy(y, height) ==
  LET most == IF height > ViewportHeight THEN height - ViewportHeight ELSE 0
  IN IF y + Distance > most THEN most ELSE y + Distance

\* the routes that scroll back to the top after the loop: the images route
\* of the per-request revision goes straight to page.$$('body img')
ScrollsBack(v, o) == ~(v = "perRequest" /\ o = "images")

\* a page that has been navigated to, on one of the two routes
InitScroll ==
  /\ variant \in Variants
  /\ Boot
  /\ fn = "scrolling"
  /\ \E o \in {"screenshot", "images"}, pg \in ScrolledPages :
       /\ dom = [route |-> o, page |-> pg]
       /\ ret = [height |-> pg.height, totalHeight |-> 0, read |-> 0,
                 steps |-> 0, scrollY |-> 0, stopped |-> FALSE, at |-> -1]

\* one run of the setInterval callback, and the growth of the page before
\* the next one
Tick ==
  /\ fn = "scrolling"
  /\ ret.steps < MaxTicks
  /\ LET scrollHeight == ret.height
         totalHeight == ret.totalHeight + Distance
         stop == Reached(totalHeight, scrollHeight)
     IN /\ fn' = IF stop THEN "stopped" ELSE "scrolling"
        /\ \E g \in Growths(dom.page, ret.steps + 1) :
             ret' = [ret EXCEPT !.read = scrollHeight,
                                !.scrollY = ScrollBy(@, scrollHeight),
                                !.totalHeight = totalHeight,
                                !.steps = @ + 1,
                                !.stopped = stop,
                                !.height = @ + g]
  /\ UNCHANGED <<variant, dom, proc, browser, closeCalls, logged>>
  /\ UNCHANGED reqVars

\* await page.waitForTimeout(2000); await page.evaluate(() =>
\* window.scrollTo(0, 0)); await page.waitForTimeout(500)
Settle ==
  /\ fn = "stopped"
  /\ fn' = "settled"
  /\ ret' = [ret EXCEPT !.scrollY =
                          IF ScrollsBack(variant, dom.route) THEN 0 ELSE @]
  /\ UNCHANGED <<variant, dom, proc, browser, closeCalls, logged>>
  /\ UNCHANGED reqVars

\* the first capture of the request
CaptureScrolled ==
  /\ fn = "settled"
  /\ fn' = "captured"
  /\ ret' = [ret EXCEPT !.at = ret.scrollY]
  /\ UNCHANGED <<variant, dom, proc, browser, closeCalls, logged>>
  /\ UNCHANGED reqVars

NextScroll == Tick \/ Settle \/ CaptureScrolled

SpecScroll == InitScroll /\ [][NextScroll]_vars

\* the interval timer keeps firing until it is cleared, and the awaited
\* steps after the loop run
SpecScrollFair ==
  /\ InitScroll
  /\ [][NextScroll]_vars
  /\ WF_vars(Tick)
  /\ WF_vars(Settle)
  /\ WF_vars(CaptureScrolled)

\* ------------------------------------------------------------ the two routes
\* tag, own text and what the suppression rules read of the elements drawn
\* for a page both routes are asked about
RouteCases ==
  { [tag |-> t, innerText |-> x.innerText, paragraphs |-> x.paragraphs,
     pText |-> x.pText, cls |-> c.cls, position |-> c.position,
     zIndex |-> c.zIndex] :
      t \in {"article", "div"},
      x \in { [innerText |-> 600, paragraphs |-> 2, pText |-> 600],
              [innerText |-> 50, paragraphs |-> 1, pText |-> 50] },
      c \in { [cls |-> "", position |-> "static", zIndex |-> "auto"],
              [cls |-> "modal", position |-> "static", zIndex |-> "auto"],
              [cls |-> "banner", position |-> "static", zIndex |-> "auto"],
              [cls |-> "", position |-> "fixed", zIndex |-> "1001"] } }

\* the elements of the page in document order, with their parents
RoutePage(c, p) ==
  [i \in DOMAIN c |->
     [tag |-> c[i].tag, innerText |-> c[i].innerText,
      paragraphs |-> c[i].paragraphs, pText |-> c[i].pText,
      cls |-> c[i].cls, position |-> c[i].position, zIndex |-> c[i].zIndex,
      parent |-> p[i]]]

\* the suppression stage of a route, from its rule k on
RECURSIVE Suppressed(_, _, _, _, _)
Suppressed(v, o, els, present, k) ==
  IF k > Len(SuppressionRules(v, o)) THEN present
  ELSE Suppressed(v, o, els,
                  ApplyRule(v, o, SuppressionRules(v, o)[k], els, present),
                  k + 1)

\* the elements of a set in document order
RECURSIVE DocumentOrder(_)
DocumentOrder(S) ==
  IF S = {} THEN <<>>
  ELSE LET i == CHOOSE x \in S : \A y \in S : x <= y
       IN <<i>> \o DocumentOrder(S \ {i})

\* innerText length, <p> count or summed <p> text of element i: its own and
\* that of its descendants still in the document, from element j on
RECURSIVE TextOf(_, _, _, _, _)
TextOf(els, present, i, field, j) ==
  IF j > Len(els) THEN 0
  ELSE (IF j \in present /\ InSubtree(els, i, j)
        THEN (CASE field = "innerText" -> els[j].innerText
                [] field = "paragraphs" -> els[j].paragraphs
                [] field = "pText" -> els[j].pText)
        ELSE 0)
       + TextOf(els, present, i, field, j + 1)

\* the page function of a route up to the articleElement check, Readability
\* having parsed the page: suppression, then the scan of what is left;
\* the position of the element found, 0 for null
LocateOn(v, o, els) ==
  LET present == Suppressed(v, o, els, 1..Len(els), 1)
      order == DocumentOrder(present)
      live == [k \in 1..Len(order) |->
                 [tag |-> els[order[k]].tag,
                  innerText |-> TextOf(els, present, order[k], "innerText", 1),
                  paragraphs |-> TextOf(els, present, order[k], "paragraphs", 1),
                  pText |-> TextOf(els, present, order[k], "pText", 1)]]
      found == DensityScan(v, live)
  IN IF found = 0 THEN 0 ELSE order[found]

\* a loaded page that is requested on both routes
InitRoutes ==
  /\ variant \in Locating
  /\ Boot
  /\ fn = "loaded"
  /\ \E n \in 0..MaxElements :
       \E c \in [1..n -> RouteCases], p \in Shapes(n) :
         dom = RoutePage(c, p)
  /\ ret = [asked |-> {}, screenshot |-> 0, images |-> 0]

\* GET /screenshot for the page
LocateOnScreenshot ==
  /\ fn = "loaded"
  /\ "screenshot" \notin ret.asked
  /\ ret' = [ret EXCEPT !.asked = @ \cup {"screenshot"},
                        !.screenshot = LocateOn(variant, "screenshot", dom)]
  /\ UNCHANGED <<variant, dom, proc, browser, closeCalls, logged, fn>>
  /\ UNCHANGED reqVars

\* GET /screenshot/images for the page
LocateOnImages ==
  /\ fn = "loaded"
  /\ "images" \notin ret.asked
  /\ ret' = [ret EXCEPT !.asked = @ \cup {"images"},
                        !.images = LocateOn(variant, "images", dom)]
  /\ UNCHANGED <<variant, dom, proc, browser, closeCalls, logged, fn>>
  /\ UNCHANGED reqVars

NextRoutes == LocateOnScreenshot \/ LocateOnImages

SpecRoutes == InitRoutes /\ [][NextRoutes]_vars

\* ================================================================== claims
Responded(r) == Len(resp[r]) > 0

\* C1: when navigation succeeded, the article was not located and nothing
\* failed afterwards, a finished screenshot request has answered with the
\* full-page PNG and a finished images request with the 'not found' result.
C1_NotFoundDegradesGracefully ==
  \A r \in Requests :
    (pc[r] = "done" /\ located[r] = "NotFound" /\ failed[r] = "none")
      => resp[r] = <<IF op[r] = "screenshot" THEN PngResult ELSE NotFoundResult>>

\* C2: no response of a request that acquired a page is sent while that page
\* is still open; in particular the page is closed before the error response.
C2_PageClosedBeforeResponse ==
  \A r \in Requests :
    (pages[r] # "none" /\ Responded(r)) => pages[r] = "closed"

\* C2 witness: a stage after acquisition failed, the page was closed and the
\* error response was sent.
C2_Witness ==
  \E r \in Requests :
    /\ failed[r] \in {"configure", "goto", "lazyLoad", "inject", "evaluate",
                      "capture"}
    /\ pages[r] = "closed"
    /\ resp[r] = <<FailureResult>>

\* C3: a request whose url is missing or empty is answered with the
\* 'parameter required' error and nothing else, and never acquires a page or
\* launches a browser.
C3_MissingUrlRejected ==
  \A r \in Requests :
    (pc[r] # "idle" /\ url[r] \in {"missing", "empty"})
      => /\ resp[r] = <<ParameterRequired>>
         /\ pc[r] = "done"
         /\ page[r] = 0
         /\ pages[r] = "none"
         /\ users[r] = {}
         /\ own[r] = "none"

\* C3 witness: both routes have rejected a request, one with an empty url
\* and one with none.
C3_Witness ==
  /\ \E r \in Requests :
       op[r] = "screenshot" /\ url[r] = "empty" /\ resp[r] = <<ParameterRequired>>
  /\ \E r \in Requests :
       op[r] = "images" /\ url[r] = "missing" /\ resp[r] = <<ParameterRequired>>

\* C4: a request is answered at most once: a success payload or an error
\* payload, never one after the other.
C4_AtMostOneResponse ==
  \A r \in Requests :
    /\ Len(resp[r]) <= 1
    /\ \A i \in 1..Len(resp[r]) :
         \/ resp[r][i].kind \in {"png", "images"} /\ resp[r][i].status = 200
         \/ resp[r][i].kind = "error" /\ resp[r][i].status \in {400, 404, 500}

\* C4 witness: sending the success payload threw, and the only payload the
\* request got is the error payload of the catch block.
C4_Witness ==
  \E r \in Requests : failed[r] = "send" /\ resp[r] = <<FailureResult>>

\* the pipeline stages among the completed steps of r
Ranked ==
  {"configure", "goto", "lazyLoad", "suppress", "locate", "render", "select",
   "capture"}

RankedSteps(r) == SelectSeq(steps[r], LAMBDA s : s \in Ranked)

\* the stage that must have completed immediately before stage s
Before(s) ==
  CASE s = "goto" -> {"configure"}
    [] s = "lazyLoad" -> {"goto"}
    [] s = "suppress" -> {"lazyLoad"}
    [] s = "locate" -> {"suppress"}
    [] s = "render" -> {"locate"}
    [] s = "select" -> {"locate"}
    [] s = "capture" -> {"lazyLoad", "locate", "render", "select"}
    [] OTHER -> {}

\* C5: the stages of one request complete in the order configure, goto,
\* lazy-load, suppression, location, rendering or selection, capture; each
\* starts only after the one before it has completed.
C5_StagesInOrder ==
  \A r \in Requests :
    LET rs == RankedSteps(r)
    IN /\ Len(rs) > 0 => rs[1] = "configure"
       /\ \A i \in 2..Len(rs) : rs[i - 1] \in Before(rs[i])

\* C5 witness: a screenshot request ran the whole pipeline, rendering
\* included, and an images request ran it up to the capture of its images.
C5_Witness ==
  /\ \E r \in Requests :
       RankedSteps(r) = <<"configure", "goto", "lazyLoad", "suppress",
                          "locate", "render", "capture">>
  /\ \E r \in Requests :
       RankedSteps(r) = <<"configure", "goto", "lazyLoad", "suppress",
                          "locate", "select", "capture">>

\* C6: whatever signals arrive, shutdown calls browser.close() at most once.
C6_BrowserClosedOnce == closeCalls <= 1

\* C7: with a browser launched at start-up, the handle is null only while the
\* launch is pending or after the process has ended: the service never
\* listens, and no request is ever handled, with a null handle.
C7_ListensOnlyAfterLaunch ==
  (SharedBrowser(variant) /\ browser = "null")
    => /\ proc \in {"launching", "exit0", "exit1"}
       /\ \A r \in Requests : pc[r] = "idle"

\* C7 witness: the launch failed and the process ended with exit code 1,
\* never having listened.
C7_Witness ==
  /\ proc = "exit1"
  /\ browser = "null"
  /\ \A r \in Requests : pc[r] = "idle"

\* C8: no request handler launches a browser of its own (and so none closes
\* one): the only browser is the one launched at start-up.
C8_HandlersNeverLaunch ==
  \A r \in Requests : own[r] = "none"

\* C9: a request's page variable refers to the page that request created or
\* to none, and only its creator ever issues an operation on a page.
C9_PagesNotShared ==
  \A r \in Requests :
    /\ page[r] \in {0, r}
    /\ users[r] \subseteq {r}

\* C9 witness: two requests are in flight at once, each past navigation on
\* its own open page.
C9_Witness ==
  /\ \A r \in {1, 2} :
       /\ pages[r] = "open"
       /\ users[r] = {r}
       /\ "goto" \in {steps[r][i] : i \in 1..Len(steps[r])}
       /\ pc[r] \notin {"idle", "done"}

\* C10: when page.goto fails, nothing but the error payload with a
\* diagnostic message is ever sent and no stage after navigation runs.
C10_NavigationFailure ==
  \A r \in Requests :
    failed[r] = "goto"
      => /\ resp[r] \in {<<>>, <<FailureResult>>}
         /\ steps[r] = <<"configure">>
         /\ captured[r] = <<>>

\* C10 witness: navigation failed and the error response was sent.
C10_Witness ==
  \E r \in Requests :
    /\ failed[r] = "goto"
    /\ resp[r] = <<FailureResult>>
    /\ FailureResult.message

\* the values a sequence holds
Range(seq) == {seq[i] : i \in 1..Len(seq)}

\* C11: when browser.newPage() rejects, the handler has no page and calls
\* close on none, nothing but the failure payload of its catch block is ever
\* sent, and with the shared browser a handler that has returned has sent it.
C11_NewPageFailureAnswered ==
  \A r \in Requests :
    failed[r] = "newPage"
      => /\ page[r] = 0
         /\ pages[r] = "none"
         /\ pageCloses[r] = 0
         /\ resp[r] \in {<<>>, <<FailureResult>>}
         /\ SharedBrowser(variant) /\ pc[r] = "done"
              => resp[r] = <<FailureResult>>

\* C11 witness: the first request failed to open a page and was answered
\* 500 without any close, and the second request got its screenshot from the
\* same process.
C11_Witness ==
  /\ failed[1] = "newPage"
  /\ resp[1] = <<FailureResult>>
  /\ pageCloses[1] = 0
  /\ resp[2] = <<PngResult>>
  /\ ~Exited

\* the capture loop of r has run to its end
LoopFinished(r) == op[r] = "images" /\ nSel[r] > 0 /\ idx[r] = nSel[r]

\* C12: the capture loop attempts every selected image in order whatever
\* happens to the earlier ones, every image it did not capture has an entry
\* in the log, and an images response holds every captured image.
C12_CaptureFailuresIsolated ==
  \A r \in Requests :
    /\ \A i \in 1..Len(captured[r]) :
         /\ captured[r][i] < idx[r]
         /\ \A j \in 1..Len(captured[r]) : i < j => captured[r][i] < captured[r][j]
    /\ \A i \in 0..(idx[r] - 1) : i \in Range(captured[r]) \cup logged[r]
    /\ \A k \in 1..Len(resp[r]) :
         resp[r][k].kind = "images"
           => {e.info : e \in Range(resp[r][k].images)} = Range(captured[r])

\* the evaluate of r left no image to capture
ZeroQualified(r) ==
  /\ op[r] = "images"
  /\ Len(steps[r]) > 0
  /\ steps[r][Len(steps[r])] \in {"locate", "select"}
  /\ nSel[r] = 0

\* C13: on the images route, a handler that found no image to capture and
\* ran to its end without a throw answers 404; the 404 payload is sent only
\* by a handler in which nothing threw and which has no capture to return,
\* and the 500 payload only by a handler in which a statement threw.
C13_NotFoundVersusFailure ==
  \A r \in Requests :
    op[r] = "images" =>
      /\ ZeroQualified(r) /\ failed[r] = "none" /\ pc[r] = "done"
           => resp[r] = <<NotFoundResult>>
      /\ NotFoundResult \in Range(resp[r])
           => /\ failed[r] = "none"
              /\ captured[r] = <<>>
              /\ located[r] = "NotFound" \/ nSel[r] = 0 \/ LoopFinished(r)
      /\ FailureResult \in Range(resp[r]) => failed[r] # "none"
      /\ NotFoundResult.status # FailureResult.status

\* C13 witness: the article was located, none of its images qualified, and
\* the request was answered 404.
C13_Witness ==
  \E r \in Requests :
    /\ op[r] = "images"
    /\ located[r] = "Found"
    /\ ZeroQualified(r)
    /\ resp[r] = <<NotFoundResult>>

\* position of the first occurrence of s among the steps of r (0 if none)
StepAt(r, s) == IndexOf(steps[r], s, 1)

\* C20: whenever article location has run for a request, the selector rule
\* and then the z-order rule were applied before it.
C20_SuppressionBeforeLocation ==
  \A r \in Requests :
    StepAt(r, "locate") > 0
      => /\ StepAt(r, "selector") > 0
         /\ StepAt(r, "selector") < StepAt(r, "zorder")
         /\ StepAt(r, "zorder") < StepAt(r, "locate")

\* the <img> element of the document a descriptor was made from
ImageOf(d) == dom[d.alt]

\* C14: the selector returns no more descriptors than there are images, and
\* every descriptor it returns, and every descriptor behind a response entry,
\* is at least 200 wide and 100 high, measured by the natural size or, when
\* that is zero, by the element's width and height.
C14_SelectedImagesLargeEnough ==
  fn \in {"selected", "responded"} =>
    /\ Len(ret.images) <= Len(dom)
    /\ \A d \in Range(ret.images) :
         /\ d.width >= MinWidth
         /\ d.height >= MinHeight
         /\ ImageOf(d).naturalWidth # 0 => d.width = ImageOf(d).naturalWidth
         /\ ImageOf(d).naturalHeight # 0 => d.height = ImageOf(d).naturalHeight
         /\ ImageOf(d).naturalWidth = 0 =>
              d.width \in {ImageOf(d).width, ParseInt(ImageOf(d).attrWidth)}
         /\ ImageOf(d).naturalHeight = 0 =>
              d.height \in {ImageOf(d).height, ParseInt(ImageOf(d).attrHeight)}
    /\ \A e \in Range(ret.entries) :
         /\ ret.images[e.info + 1].width >= MinWidth
         /\ ret.images[e.info + 1].height >= MinHeight

\* C14 witness: of two images the 199-pixel-wide one was dropped and the one
\* that has not loaded but is laid out 200 by 100 was selected and returned.
C14_Witness ==
  /\ fn = "responded"
  /\ Len(dom) = 2
  /\ dom[1].naturalWidth = 199
  /\ dom[2].naturalWidth = 0
  /\ Len(ret.images) = 1
  /\ ret.images[1].alt = 2
  /\ ret.images[1].width = 200
  /\ Len(ret.entries) = 1

\* C15: descriptors are numbered from zero by their position among the
\* selected images, which keep their document order; response entries are
\* numbered from zero by their position among the captured images, in
\* selection order, and each is named image-<its index>.png.
C15_IndicesArePositions ==
  fn \in {"selected", "responded"} =>
    /\ \A i \in 1..Len(ret.images) :
         /\ ret.images[i].index = i - 1
         /\ \A j \in 1..Len(ret.images) :
              i < j => ret.images[i].alt < ret.images[j].alt
    /\ \A i \in 1..Len(ret.entries) :
         /\ ret.entries[i].index = i - 1
         /\ ret.entries[i].filename = <<"image-", ret.entries[i].index, ".png">>
         /\ \A j \in 1..Len(ret.entries) :
              i < j => ret.entries[i].info < ret.entries[j].info

\* C15 witness: two images were selected, the capture of the first was
\* skipped, and the response holds the second as entry 0.
C15_Witness ==
  /\ fn = "responded"
  /\ Len(ret.images) = 2
  /\ Len(ret.entries) = 1
  /\ ret.entries[1].info = 1
  /\ ret.entries[1].index = 0

\* C17: no descriptor the selection returns has an empty source or a data
\* URI as its source.
C17_NoEmptyOrDataSource ==
  fn \in {"selected", "responded"} =>
    \A d \in Range(ret.images) : d.src # "" /\ ~IncludesData(d.src)

\* the lazy-loading attributes of an image in the order the claim gives
FallbackChain(img) ==
  <<img.dataSrc, img.dataLazySrc, img.dataOriginal,
    FirstToken(img.dataSrcset), FirstToken(img.srcset)>>

\* the first non-empty value of a sequence of strings ("" if none)
FirstNonEmpty(seq) ==
  LET at == {i \in 1..Len(seq) : seq[i] # ""}
  IN IF at = {} THEN "" ELSE seq[CHOOSE i \in at : \A j \in at : i <= j]

\* C16: on the render path and on the images path, the resolved source of
\* an image is its src when that is non-empty, not a data URI and not a
\* placeholder, and otherwise the first non-empty value of data-src,
\* data-lazy-src, data-original, the first URL of data-srcset and the first
\* URL of srcset.
C16_ResolvedSource ==
  fn \in {"render", "images"} =>
    IF dom.src # "" /\ ~IncludesData(dom.src) /\ ~IncludesPlaceholder(dom.src)
    THEN ret = dom.src
    ELSE FirstNonEmpty(FallbackChain(dom)) # ""
           => ret = FirstNonEmpty(FallbackChain(dom))

\* the elements of the document whose text is above the floor of the scan
AboveFloor(v, els) ==
  {i \in 1..Len(els) :
     IF v = "cdn"
     THEN els[i].innerText > FloorInnerText
     ELSE els[i].tag # "section" /\ els[i].pText > FloorParagraphText}

\* C18: in a document where exactly one candidate is above the floor, the
\* locator finds that element.
C18_OnlyCandidateSelected ==
  fn = "located" /\ Cardinality(AboveFloor(variant, dom.els)) = 1
    => /\ ret.status = "Found"
       /\ ret.element \in AboveFloor(variant, dom.els)

\* C19: when reader.parse() returns null and some candidate of the live
\* document is above the floor, the result is Found.
C19_ScanAfterNullParse ==
  fn = "located" /\ dom.lib /\ ~dom.parsed
    /\ AboveFloor(variant, dom.els) # {}
    => ret.status = "Found"


\* C30: over the whole request close is called at most once on each page,
\* also when the step after the try block's close throws or that close
\* itself rejects.
C30_PageClosedOnce == \A p \in Requests : pageCloses[p] <= 1


\* C22: selecting among the images a selection has kept returns the same
\* images, in the same order and with the same indices.
C22_SelectionIdempotent ==
  fn = "reselected" => ret.again = ret.images

\* C22 witness: of two images the first was dropped and the second, a lazy
\* image whose source the fix-up filled in, was kept with index 0; selecting
\* again among the kept images returned it unchanged.
C22_Witness ==
  /\ fn = "reselected"
  /\ variant = "replace"
  /\ Len(dom) = 2
  /\ dom[2].src = ""
  /\ Len(ret.images) = 1
  /\ ret.images[1].alt = 2
  /\ ret.images[1].src = "/lazy.jpg"
  /\ ret.again = <<ret.images[1]>>
  /\ ret.again[1].index = 0


\* the candidates of a revision's scan, its score of one, and its floor test
IsCandidate(v, el) ==
  IF v = "cdn" THEN el.tag \in {"article", "main", "div", "section"}
  ELSE el.tag \in {"article", "main", "div"}

Score(v, el) ==
  IF v = "cdn" THEN el.innerText + el.paragraphs * ParagraphWeight
  ELSE el.pText

ClearsFloor(v, el) ==
  /\ IsCandidate(v, el)
  /\ IF v = "cdn" THEN el.innerText > FloorInnerText
     ELSE el.pText > FloorParagraphText

\* positions of the candidates of els that clear the floor
Clearing(v, els) == {i \in 1..Len(els) : ClearsFloor(v, els[i])}

\* C23: when the scan runs it returns null exactly when no candidate clears
\* the floor, and otherwise the first candidate in scan order among those
\* with the highest score that clear the floor.
C23_ScanReturnsFirstMaximum ==
  fn = "located" /\ dom.lib /\ dom.parsed
    => LET c == Clearing(variant, dom.els)
       IN /\ ret.element = 0 <=> c = {}
          /\ c # {}
               => /\ ret.element \in c
                  /\ \A j \in c :
                       /\ Score(variant, dom.els[j])
                            <= Score(variant, dom.els[ret.element])
                       /\ Score(variant, dom.els[j])
                            = Score(variant, dom.els[ret.element])
                            => ret.element <= j


\* a fixed or sticky element whose z-index resolves to a number above 1000
HighOverlay(el) ==
  el.position \in {"fixed", "sticky"} /\ el.zIndex = "1001"

\* the last rule applied to the document
LastRule == IF ret.applied = <<>> THEN "none" ELSE ret.applied[Len(ret.applied)]

\* C26: once z-order removal has run no fixed or sticky element with a
\* z-index above 1000 is left in the document, and what the rule took out
\* is such an element or a descendant of one: an element at exactly 1000,
\* with z-index auto or with another position stays unless an ancestor went.
C26_ZOrderRemoval ==
  fn \in {"noisy", "reapplied"} /\ LastRule = "zorder"
    => /\ \A j \in ret.present : ~HighOverlay(dom.els[j])
       /\ \A j \in ret.before \ ret.present :
            \E i \in ret.before :
              HighOverlay(dom.els[i]) /\ InSubtree(dom.els, i, j)

\* C26 witness: a fixed element with z-index 1001 went together with its
\* static child, and a fixed element with z-index exactly 1000 stayed.
C26_Witness ==
  /\ fn = "noisy"
  /\ LastRule = "zorder"
  /\ Len(dom.els) = 3
  /\ dom.els[1].position = "fixed" /\ dom.els[1].zIndex = "1001"
  /\ dom.els[2].parent = 1 /\ dom.els[2].position = "static"
  /\ dom.els[3].position = "fixed" /\ dom.els[3].zIndex = "1000"
  /\ dom.els[3].parent = 0
  /\ ret.before = {1, 2, 3}
  /\ ret.present = {3}

\* C27: a suppression rule applied again to a document it has already been
\* applied to removes nothing.
C27_SuppressionIdempotent ==
  fn = "reapplied" => ret.present = ret.before

\* C27 witness: selector removal took out one of two elements and z-order
\* removal the other; selector removal applied again left the empty
\* document as it was.
C27_Witness ==
  /\ fn = "reapplied"
  /\ ret.applied = <<"selector", "zorder", "selector">>
  /\ Len(dom.els) = 3
  /\ dom.els[1].cls = "modal" /\ dom.els[2].cls = "modal"
  /\ dom.els[2].parent = 0
  /\ HighOverlay(dom.els[3]) /\ dom.els[3].cls = ""
  /\ ret.present = {}
  /\ ret.before = {}


\* C21: when the page function has returned false the document is as it was
\* before rendering started, and so is the document the capture shows.
C21_DeclinedRenderLeavesDocument ==
  fn \in {"returned", "captured"} /\ ret.returned = "false"
    => /\ ret.doc = Loaded(dom.els)
       /\ fn = "captured" => ret.shot = Loaded(dom.els)

\* C28: once the page function has located an article element and has
\* returned, that element is attached to the document, up to and including
\* the capture.
C28_ArticleStaysAttached ==
  fn \in {"returned", "captured"} /\ Renders
    => Attached(ret.doc.par, dom.article)

\* children of body in the loaded document
TopLevel == {c \in 1..Len(dom.els) : dom.els[c].parent = 0}

\* C29: in the in-place renderer, once the children of body have been
\* hidden, every child of body that neither is nor contains the article
\* element is hidden and still a child of body, the one that is or contains
\* it is not hidden, and every image inside the article has its src.
C29_InPlaceHidesOthers ==
  variant = "inplace" /\ Renders /\ ret.step >= 2
    => /\ \A c \in TopLevel :
            IF Under(ParentsOf(dom.els), c, dom.article)
            THEN c \notin ret.doc.hidden
            ELSE c \in ret.doc.hidden /\ ret.doc.par[c] = 0
       /\ \A i \in 1..Len(dom.els) :
            dom.els[i].tag = "img" /\ Under(ret.doc.par, dom.article, i)
              => ret.doc.src[i] = dom.els[i].src

\* C29 witness: the article is nested in the first child of body and holds
\* an image, the second child of body is a sidebar; after rendering the
\* sidebar is hidden in place, the first child is visible and the image is
\* still in the article with its src.
C29_Witness ==
  /\ variant = "inplace"
  /\ fn = "captured"
  /\ ret.returned = "true"
  /\ Len(dom.els) = 4
  /\ dom.article = 2
  /\ dom.els[2].parent = 1
  /\ dom.els[3].tag = "img" /\ dom.els[3].parent = 2
  /\ dom.els[4].tag = "nav" /\ dom.els[4].parent = 0
  /\ ret.doc.hidden = {4}
  /\ ret.doc.par[4] = 0
  /\ Attached(ret.doc.par, 3)
  /\ ret.doc.src[3] = 3


\* the page stays ahead of the scroll: it starts higher than one step and
\* grows by at least a step after every tick
Outpaces == dom.page.kind = "endless" /\ dom.page.height > Distance

CeilSteps(h) == (h + Distance - 1) \div Distance

\* C25: every tick adds 100 to the distance, the loop stops at the first
\* tick whose distance has reached the scrollHeight read on that tick and
\* not before, a page of constant height H takes max(1, ceil(H/100)) steps,
\* and at the capture the page is scrolled to the top.
C25_ScrollSteps ==
  /\ ret.totalHeight = Distance * ret.steps
  /\ ret.steps > 0 => (ret.stopped <=> ret.totalHeight >= ret.read)
  /\ ret.steps = 0 => ~ret.stopped
  /\ fn # "scrolling" => ret.stopped
  /\ ret.stopped /\ dom.page.kind = "constant"
       => ret.steps = IF CeilSteps(dom.page.height) > 1
                      THEN CeilSteps(dom.page.height) ELSE 1
  /\ fn = "captured" => ret.at = 0


\* C31: every request that has passed the url check is answered in the end.
C31_EveryRequestAnswered ==
  \A r \in Requests :
    [](pc[r] # "idle" /\ ~UrlMissing(url[r]) => <>Responded(r))


\* C32: a success response of the images route holds at least one image,
\* and its totalImages, the length of its images array and its
\* X-Total-Images header agree; so a request none of whose captures
\* succeeded is not answered with a success.
C32_SuccessHasImages ==
  \A r \in Requests :
    \A i \in 1..Len(resp[r]) :
      resp[r][i].kind = "images"
        => /\ resp[r][i].total >= 1
           /\ resp[r][i].total = Len(resp[r][i].images)
           /\ resp[r][i].header = ToString(resp[r][i].total)
           /\ Len(captured[r]) >= 1


\* C33: asked about the same loaded page, the two routes locate the same
\* article element.
C33_RoutesLocateSameElement ==
  ret.asked = {"screenshot", "images"} => ret.screenshot = ret.images

====
